---------------------------- MODULE Spec2Model ----------------------------
(***************************************************************************)
(* Model of pkg/convert/convert.go of carabiner-dev/pypi-attestations:     *)
(* the conversions between a PEP 740 attestation and a Sigstore bundle,    *)
(* and the JSON codecs of both.                                            *)
(*                                                                         *)
(* The six public functions are pure.  Each is an operator that returns a  *)
(* result record (ok, an error, or a panic), computed in the order the Go  *)
(* code evaluates its statements; the state machine is a caller that      *)
(* picks an input, calls a function, and feeds results to further calls.   *)
(*                                                                         *)
(* Representation                                                          *)
(*   pointer          <<>> is nil, <<x>> points to x                       *)
(*   []byte           a sequence of 0..255                                 *)
(*   Go string        a sequence of bytes (255 is never valid UTF-8)       *)
(*   base64 text      a sequence of symbols: 0..63 the alphabet position,  *)
(*                    64 the padding '=', 65 a character outside it        *)
(*   JSON value       [t, n, s]: t the JSON type, n a number's value,      *)
(*                    s a string's bytes (for an object: its "kind")       *)
(***************************************************************************)
EXTENDS Integers, Sequences, FiniteSets, TLC

VARIABLES hist      \* the calls made so far: <<[op, arg, res], ...>>

vars == <<hist>>

---------------------------------------------------------------------------
(* Bounds of the model *)

\* longest transparencyEntries list of an input attestation
MaxEntries == 2

\* longest tlogEntries list of an input bundle
MaxTlog == 2

\* longest signature list of an input DSSE envelope
MaxSigs == 2

\* longest certificate chain of an input bundle
MaxChain == 2

\* longest transparency_entries array of an input attestation JSON document
MaxJsonEntries == 2

\* number of calls in one run of the caller
MaxCalls == 3

---------------------------------------------------------------------------
(* Pointers and results *)

NilPtr == <<>>

Ref(x) == <<x>>

IsNil(p) == Len(p) = 0

Deref(p) == p[1]

\* a returned value with a nil error
Ok(kind, v) == [status |-> "ok", msg |-> "", idx |-> -1, kind |-> kind, val |-> Ref(v)]

\* a nil value with an error; idx is the index the message carries, or -1
ErrAt(m, i) == [status |-> "err", msg |-> m, idx |-> i, kind |-> "none", val |-> NilPtr]

Err(m) == ErrAt(m, -1)

\* a nil pointer dereference: the call does not return
Panic == [status |-> "panic", msg |-> "nil pointer dereference", idx |-> -1,
          kind |-> "none", val |-> NilPtr]

---------------------------------------------------------------------------
(* Go strings *)

\* utf8.ValidString over the bytes the model uses: ASCII is valid, 255 is not
ValidUTF8(s) == \A i \in 1..Len(s) : s[i] < 128

Digit0 == 48

IsDigit(c) == c >= 48 /\ c <= 57

RECURSIVE FormatInt(_)
\* strconv.FormatInt(n, 10) for n >= 0
FormatInt(n) ==
    IF n < 10 THEN <<Digit0 + n>>
    ELSE Append(FormatInt(n \div 10), Digit0 + (n % 10))

\* whether s is a JSON integer literal: digits, no leading zero
IsIntLiteral(s) ==
    /\ Len(s) >= 1
    /\ \A i \in 1..Len(s) : IsDigit(s[i])
    /\ (Len(s) > 1 => s[1] # Digit0)

RECURSIVE ParseInt(_)
\* the value of an integer literal
ParseInt(s) ==
    IF Len(s) = 0 THEN 0
    ELSE 10 * ParseInt(SubSeq(s, 1, Len(s) - 1)) + (s[Len(s)] - Digit0)

---------------------------------------------------------------------------
(* encoding/base64, StdEncoding *)

Pad == 64

IsSym(c) == c >= 0 /\ c < 64

RECURSIVE EncodeToString_NoPadding(_)
\* EncodeToString without the padding of the last quantum
EncodeToString_NoPadding(b) ==
    IF Len(b) = 0 THEN <<>>
    ELSE IF Len(b) = 1 THEN
        <<b[1] \div 4, (b[1] % 4) * 16>>
    ELSE IF Len(b) = 2 THEN
        <<b[1] \div 4, (b[1] % 4) * 16 + b[2] \div 16, (b[2] % 16) * 4>>
    ELSE
        <<b[1] \div 4, (b[1] % 4) * 16 + b[2] \div 16,
          (b[2] % 16) * 4 + b[3] \div 64, b[3] % 64>>
        \o EncodeToString_NoPadding(SubSeq(b, 4, Len(b)))

RECURSIVE EncodeToString(_)
\* base64.StdEncoding.EncodeToString
EncodeToString(b) ==
    IF Len(b) = 0 THEN <<>>
    ELSE IF Len(b) = 1 THEN
        <<b[1] \div 4, (b[1] % 4) * 16, Pad, Pad>>
    ELSE IF Len(b) = 2 THEN
        <<b[1] \div 4, (b[1] % 4) * 16 + b[2] \div 16, (b[2] % 16) * 4, Pad>>
    ELSE
        <<b[1] \div 4, (b[1] % 4) * 16 + b[2] \div 16,
          (b[2] % 16) * 4 + b[3] \div 64, b[3] % 64>>
        \o EncodeToString(SubSeq(b, 4, Len(b)))

RECURSIVE DecodeValid(_)
\* whether base64.StdEncoding.DecodeString accepts s: quanta of four symbols,
\* padding only at the end of the last quantum
DecodeValid(s) ==
    IF Len(s) = 0 THEN TRUE
    ELSE IF Len(s) < 4 THEN FALSE
    ELSE /\ IsSym(s[1]) /\ IsSym(s[2])
         /\ \/ IsSym(s[3]) /\ IsSym(s[4]) /\ DecodeValid(SubSeq(s, 5, Len(s)))
            \/ IsSym(s[3]) /\ s[4] = Pad /\ Len(s) = 4
            \/ s[3] = Pad /\ s[4] = Pad /\ Len(s) = 4

RECURSIVE DecodeBytes(_)
\* the bytes base64.StdEncoding.DecodeString returns for an accepted s
DecodeBytes(s) ==
    IF Len(s) = 0 THEN <<>>
    ELSE IF s[3] = Pad THEN
        <<s[1] * 4 + s[2] \div 16>>
    ELSE IF s[4] = Pad THEN
        <<s[1] * 4 + s[2] \div 16, (s[2] % 16) * 16 + s[3] \div 4>>
    ELSE
        <<s[1] * 4 + s[2] \div 16, (s[2] % 16) * 16 + s[3] \div 4,
          (s[3] % 4) * 64 + s[4]>>
        \o DecodeBytes(SubSeq(s, 5, Len(s)))

---------------------------------------------------------------------------
(* crypto/x509 *)

\* the DER tag of a SEQUENCE
DerSequence == 48

\* CertParses without the check for trailing data
CertParses_TrailingAccepted(der) ==
    /\ Len(der) >= 2
    /\ der[1] = DerSequence
    /\ Len(der) >= 2 + der[2]

\* x509.ParseCertificate accepts der: one SEQUENCE whose length byte covers
\* exactly the rest of the input (a short body or trailing data is an error)
CertParses(der) ==
    /\ Len(der) >= 2
    /\ der[1] = DerSequence
    /\ Len(der) = 2 + der[2]

\* cert.Raw of the parsed certificate: the bytes of the SEQUENCE read
CertRaw(der) == SubSeq(der, 1, 2 + der[2])

---------------------------------------------------------------------------
(* JSON values and structpb.Struct *)

Absent == [t |-> "absent", n |-> 0, s |-> <<>>]

JNull == [t |-> "null", n |-> 0, s |-> <<>>]

JNum(k) == [t |-> "num", n |-> k, s |-> <<>>]

JStr(cs) == [t |-> "str", n |-> 0, s |-> cs]

\* a nested JSON object; cs is the value of its "kind" member, empty if none
JObj(cs) == [t |-> "obj", n |-> 0, s |-> cs]

\* the keys a transparency entry object may carry in the model: three fields
\* of rekor's TransparencyLogEntry and one key its schema does not know
EntryKeys == {"logIndex", "kindVersion", "inclusionProof", "bogus"}

\* the keys present in a JSON object / structpb.Struct o
Present(o) == {k \in DOMAIN o : o[k].t # "absent"}

\* protojson.Marshal of a structpb.Struct (also its MarshalJSON): the object
\* itself, or an error when a string in it is not valid UTF-8
StructMarshals(s) == \A k \in Present(s) : ValidUTF8(s[k].s)

StructToJSON(s) == s

\* json.Unmarshal into a map, then structpb.NewStruct: the same object
JSONToStruct(o) == o

---------------------------------------------------------------------------
(* rekor TransparencyLogEntry and its protojson projection *)

\* a typed entry: logIndex int64, kindVersion *KindVersion, inclusionProof
\* *InclusionProof (its content is not modelled)
TLogEntry(li, kv, ip) == [logIndex |-> li, kindVersion |-> kv, inclusionProof |-> ip]

KindVersion(kind) == [kind |-> kind]

InclusionProof == [checkpoint |-> <<>>]

\* protojson.Marshal(entry) fails on a string that is not valid UTF-8
EntryMarshals(e) ==
    IsNil(e.kindVersion) \/ ValidUTF8(Deref(e.kindVersion).kind)

\* protojson.Marshal(entry): an int64 is written as a decimal string, a field
\* holding its default value is left out
EntryToJSON(e) ==
    [k \in EntryKeys |->
        CASE k = "logIndex" ->
                IF e.logIndex = 0 THEN Absent ELSE JStr(FormatInt(e.logIndex))
          [] k = "kindVersion" ->
                IF IsNil(e.kindVersion) THEN Absent
                ELSE JObj(Deref(e.kindVersion).kind)
          [] k = "inclusionProof" ->
                IF IsNil(e.inclusionProof) THEN Absent ELSE JObj(<<>>)
          [] OTHER -> Absent]

\* protojson.Unmarshal into a TransparencyLogEntry accepts o: no unknown key,
\* an int64 given as a number or as a decimal string, messages given as
\* objects; null leaves any field unset
EntryUnmarshals(o) ==
    /\ o["bogus"].t = "absent"
    /\ \/ o["logIndex"].t \in {"absent", "null", "num"}
       \/ o["logIndex"].t = "str" /\ IsIntLiteral(o["logIndex"].s)
    /\ o["kindVersion"].t \in {"absent", "null", "obj"}
    /\ o["inclusionProof"].t \in {"absent", "null", "obj"}

\* the entry protojson.Unmarshal builds from an accepted o
JSONToEntry(o) ==
    TLogEntry(
        CASE o["logIndex"].t = "num" -> o["logIndex"].n
          [] o["logIndex"].t = "str" -> ParseInt(o["logIndex"].s)
          [] OTHER -> 0,
        IF o["kindVersion"].t = "obj"
            THEN Ref(KindVersion(o["kindVersion"].s)) ELSE NilPtr,
        IF o["inclusionProof"].t = "obj" THEN Ref(InclusionProof) ELSE NilPtr)

\* transparencyEntryToStruct(entry)
transparencyEntryToStruct(entry) ==
    IF ~EntryMarshals(entry)
        THEN Err("failed to marshal transparency entry to JSON")
    ELSE Ok("struct", JSONToStruct(EntryToJSON(entry)))

\* transparencyEntryFromStruct(s)
transparencyEntryFromStruct(s) ==
    IF ~StructMarshals(s)
        THEN Err("failed to marshal struct to JSON")
    ELSE IF ~EntryUnmarshals(StructToJSON(s))
        THEN Err("failed to unmarshal JSON to TransparencyLogEntry")
    ELSE Ok("entry", JSONToEntry(StructToJSON(s)))

---------------------------------------------------------------------------
(* The two data models *)

\* pb.Attestation and its blocks
Attestation(v, vm, env) == [Version |-> v, VerificationMaterial |-> vm, Envelope |-> env]

AttVerificationMaterial(cert, entries) ==
    [Certificate |-> cert, TransparencyEntries |-> entries]

AttEnvelope(stmt, sig) == [Statement |-> stmt, Signature |-> sig]

\* protobundle.VerificationMaterial.Content, a oneof
VMContent(kind, cert, chain) ==
    [kind |-> kind, Certificate |-> cert, X509CertificateChain |-> chain]

X509Certificate(raw) == [RawBytes |-> raw]

X509CertificateChain(certs) == [Certificates |-> certs]

BundleVerificationMaterial(content, tlog) == [Content |-> content, TlogEntries |-> tlog]

\* protobundle.Bundle.Content, a oneof
BundleContent(kind, env) == [kind |-> kind, DsseEnvelope |-> env]

DsseEnvelope(payload, ptype, sigs) ==
    [Payload |-> payload, PayloadType |-> ptype, Signatures |-> sigs]

DsseSignature(sig) == [Sig |-> sig]

\* protobundle.Bundle
PbBundle(mt, vm, content) ==
    [MediaType |-> mt, VerificationMaterial |-> vm, Content |-> content]

\* sigstore-go's bundle.Bundle, which embeds the *protobundle.Bundle
WrapBundle(pbptr) == [Bundle |-> pbptr]

---------------------------------------------------------------------------
(* sigstore-go bundle.NewBundle *)

BundleMediaType == "application/vnd.dev.sigstore.bundle.v0.3+json"

LegacyMediaType02 == "application/vnd.dev.sigstore.bundle+json;version=0.2"

InTotoPayloadType == "application/vnd.in-toto+json"

\* the bundle version a media type names, in tenths; 0 when it names none
MediaTypeVersion(mt) ==
    CASE mt = BundleMediaType -> 3
      [] mt = LegacyMediaType02 -> 2
      [] OTHER -> 0

\* tlog.ParseTransparencyLogEntry accepts the entry (of its required fields
\* the model keeps kindVersion)
TlogEntryParses(e) == ~IsNil(e.kindVersion)

\* bundle.NewBundle(pb): validate, then wrap
NewBundle(pb) ==
    LET ver == MediaTypeVersion(pb.MediaType)
        entries == IF IsNil(pb.VerificationMaterial) THEN <<>>
                   ELSE Deref(pb.VerificationMaterial).TlogEntries
    IN
    IF ver = 0 THEN Err("unsupported media type")
    ELSE IF \E i \in 1..Len(entries) : ~TlogEntryParses(entries[i])
        THEN Err("invalid transparency log entry")
    ELSE IF Len(entries) > 0
            /\ \A i \in 1..Len(entries) : IsNil(entries[i].inclusionProof)
        THEN Err("inclusion proof missing in bundle")
    ELSE IF ver >= 3 /\ ~IsNil(pb.VerificationMaterial)
            /\ Deref(pb.VerificationMaterial).Content.kind = "x509CertificateChain"
        THEN Err("verification material cannot be X.509 certificate chain")
    ELSE IF pb.Content.kind = "unset"
        THEN Err("missing bundle content")
    ELSE IF IsNil(pb.VerificationMaterial)
            \/ Deref(pb.VerificationMaterial).Content.kind = "unset"
        THEN Err("missing verification material")
    ELSE Ok("bundle", WrapBundle(Ref(pb)))

---------------------------------------------------------------------------
(* ToBundle *)

\* the nil check ToBundle starts with
AttestationIsNil(attestation) == IsNil(attestation)

SupportedVersion == 1

\* the version gate with a lower bound in place of the equality
VersionSupported_AtLeast(v) == v >= SupportedVersion

\* the version gate
VersionSupported(v) == v = SupportedVersion

\* the DSSE envelope ToBundle creates from the attestation's envelope
ToBundleEnvelope(env) ==
    DsseEnvelope(env.Statement, InTotoPayloadType, <<Ref(DsseSignature(env.Signature))>>)

\* ToBundleEntry taking the last entry in place of the first
ToBundleEntry_Last(entries) == entries[Len(entries)]

\* the transparency entry ToBundle converts
ToBundleEntry(entries) == entries[1]

\* ToBundlePb with the media type of the previous bundle format
ToBundlePb_LegacyMediaType(raw, envelope, tlogEntry) ==
    PbBundle(LegacyMediaType02,
             Ref(BundleVerificationMaterial(
                    VMContent("certificate", Ref(X509Certificate(raw)), NilPtr),
                    <<tlogEntry>>)),
             BundleContent("dsseEnvelope", Ref(envelope)))

\* the protobuf bundle ToBundle assembles
ToBundlePb(raw, envelope, tlogEntry) ==
    PbBundle(BundleMediaType,
             Ref(BundleVerificationMaterial(
                    VMContent("certificate", Ref(X509Certificate(raw)), NilPtr),
                    <<tlogEntry>>)),
             BundleContent("dsseEnvelope", Ref(envelope)))

\* every field access below dereferences its pointer: on nil it panics
ToBundle(attestation) ==
    IF AttestationIsNil(attestation) THEN Err("attestation cannot be nil")
    ELSE IF IsNil(attestation) THEN Panic
    ELSE LET a == Deref(attestation) IN
    IF ~VersionSupported(a.Version) THEN Err("unsupported attestation version")
    ELSE IF IsNil(a.VerificationMaterial) THEN Panic
    ELSE LET vm == Deref(a.VerificationMaterial) IN
    IF ~CertParses(vm.Certificate) THEN Err("failed to parse certificate")
    ELSE IF IsNil(a.Envelope) THEN Panic
    ELSE IF Len(vm.TransparencyEntries) = 0 THEN Err("no transparency entries found")
    ELSE LET t == transparencyEntryFromStruct(ToBundleEntry(vm.TransparencyEntries)) IN
    IF t.status # "ok" THEN Err("failed to convert transparency entry")
    ELSE NewBundle(ToBundlePb(CertRaw(vm.Certificate),
                              ToBundleEnvelope(Deref(a.Envelope)),
                              Deref(t.val)))

---------------------------------------------------------------------------
(* FromBundle *)

\* BundleIsNil without the check of the inner message
BundleIsNil_OuterOnly(b) == IsNil(b)

\* the nil check FromBundle starts with
BundleIsNil(b) == IsNil(b) \/ IsNil(Deref(b).Bundle)

\* ExtractCertificate taking the last certificate of a chain
ExtractCertificate_LastOfChain(content) ==
    CASE content.kind = "certificate" ->
            IF IsNil(content.Certificate) THEN Panic
            ELSE Ok("bytes", Deref(content.Certificate).RawBytes)
      [] content.kind = "x509CertificateChain" ->
            IF IsNil(content.X509CertificateChain) THEN Panic
            ELSE LET certs == Deref(content.X509CertificateChain).Certificates IN
                 IF Len(certs) = 0 THEN Err("no certificates in chain")
                 ELSE IF IsNil(certs[Len(certs)]) THEN Panic
                 ELSE Ok("bytes", Deref(certs[Len(certs)]).RawBytes)
      [] OTHER -> Err("unsupported certificate type")

\* the type switch over the verification material's content
ExtractCertificate(content) ==
    CASE content.kind = "certificate" ->
            IF IsNil(content.Certificate) THEN Panic
            ELSE Ok("bytes", Deref(content.Certificate).RawBytes)
      [] content.kind = "x509CertificateChain" ->
            IF IsNil(content.X509CertificateChain) THEN Panic
            ELSE IF Len(Deref(content.X509CertificateChain).Certificates) = 0
                THEN Err("no certificates in chain")
            ELSE IF IsNil(Deref(content.X509CertificateChain).Certificates[1])
                THEN Panic
            ELSE Ok("bytes",
                    Deref(Deref(content.X509CertificateChain).Certificates[1]).RawBytes)
      [] OTHER -> Err("unsupported certificate type")

\* SignatureCountOk accepting any non-empty list
SignatureCountOk_AtLeastOne(sigs) == Len(sigs) >= 1

\* the signature count FromBundle accepts
SignatureCountOk(sigs) == Len(sigs) = 1

RECURSIVE ConvertTlogEntries_SkipFailed(_, _, _)
\* ConvertTlogEntries leaving out an entry whose conversion fails
ConvertTlogEntries_SkipFailed(entries, i, acc) ==
    IF i >= Len(entries) THEN Ok("structs", acc)
    ELSE LET s == transparencyEntryToStruct(entries[i + 1]) IN
         IF s.status # "ok"
             THEN ConvertTlogEntries_SkipFailed(entries, i + 1, acc)
         ELSE ConvertTlogEntries_SkipFailed(entries, i + 1, Append(acc, Deref(s.val)))

RECURSIVE ConvertTlogEntries(_, _, _)
\* the loop over TlogEntries, from index i (0-based) on, acc the entries
\* converted so far
ConvertTlogEntries(entries, i, acc) ==
    IF i >= Len(entries) THEN Ok("structs", acc)
    ELSE LET s == transparencyEntryToStruct(entries[i + 1]) IN
         IF s.status # "ok"
             THEN ErrAt("failed to convert transparency entry", i)
         ELSE ConvertTlogEntries(entries, i + 1, Append(acc, Deref(s.val)))

\* the version FromBundle writes
FromBundleVersion == 1

\* the attestation FromBundle assembles
FromBundleAttestation(certBytes, tlogEntries, env) ==
    Attestation(FromBundleVersion,
                Ref(AttVerificationMaterial(certBytes, tlogEntries)),
                Ref(AttEnvelope(env.Payload, Deref(env.Signatures[1]).Sig)))

\* every field access below dereferences its pointer: on nil it panics
FromBundle(b) ==
    IF BundleIsNil(b) THEN Err("bundle cannot be nil")
    ELSE IF IsNil(b) THEN Panic
    ELSE IF IsNil(Deref(b).Bundle) THEN Panic
    ELSE LET pb == Deref(Deref(b).Bundle) IN
    IF IsNil(pb.VerificationMaterial) THEN Panic
    ELSE LET vm == Deref(pb.VerificationMaterial)
             c == ExtractCertificate(vm.Content) IN
    IF c.status # "ok" THEN c
    ELSE IF pb.Content.kind # "dsseEnvelope"
        THEN Err("bundle does not contain a DSSE envelope")
    ELSE IF IsNil(pb.Content.DsseEnvelope) THEN Panic
    ELSE LET env == Deref(pb.Content.DsseEnvelope) IN
    IF ~SignatureCountOk(env.Signatures) THEN Err("expected exactly one signature")
    ELSE LET t == ConvertTlogEntries(vm.TlogEntries, 0, <<>>) IN
    IF t.status # "ok" THEN t
    ELSE IF IsNil(env.Signatures[1]) THEN Panic
    ELSE Ok("attestation", FromBundleAttestation(Deref(c.val), Deref(t.val), env))

---------------------------------------------------------------------------
(* Attestation JSON codec *)

\* A PEP 740 JSON text, as the value json.Unmarshal reads from it.  form is
\* "malformed" (not JSON), "other" (JSON, but no object and not null), "null"
\* or "object"; a block's form is "absent", "other" (not an object / not an
\* array) or "object" / "array".
AttDoc(form, version, vm, env) ==
    [form |-> form, version |-> version, verification_material |-> vm, envelope |-> env]

DocVM(form, cert, entries) ==
    [form |-> form, certificate |-> cert, transparency_entries |-> entries]

DocEntries(form, elems) == [form |-> form, elems |-> elems]

\* an array element: a JSON object (st its content) or any other JSON value
DocElem(isObj, st) == [isObj |-> isObj, st |-> st]

DocEnv(form, stmt, sig) == [form |-> form, statement |-> stmt, signature |-> sig]

\* the object every key of which is absent
EmptyStruct == [k \in EntryKeys |-> Absent]

NoVM == DocVM("absent", Absent, DocEntries("absent", <<>>))

NoEnv == DocEnv("absent", Absent, Absent)

\* uint32(v) of a float64 holding a natural number below 2^32 is that number
\* (the numbers of the model stay below 2^31)
Uint32(v) == v

\* the JSON object MarshalAttestation builds
MarshalAttestationDoc(a) ==
    LET vm == Deref(a.VerificationMaterial)
        env == Deref(a.Envelope)
    IN AttDoc("object", JNum(a.Version),
              DocVM("object",
                    JStr(EncodeToString(vm.Certificate)),
                    DocEntries("array",
                        [i \in 1..Len(vm.TransparencyEntries) |->
                            DocElem(TRUE, StructToJSON(vm.TransparencyEntries[i]))])),
              DocEnv("object",
                     JStr(EncodeToString(env.Statement)),
                     JStr(EncodeToString(env.Signature))))

MarshalAttestation(attestation) ==
    IF IsNil(attestation) THEN Panic
    ELSE LET a == Deref(attestation) IN
    IF IsNil(a.VerificationMaterial) THEN Panic
    ELSE IF IsNil(a.Envelope) THEN Panic
    ELSE IF \E i \in 1..Len(Deref(a.VerificationMaterial).TransparencyEntries) :
                ~StructMarshals(Deref(a.VerificationMaterial).TransparencyEntries[i])
        THEN Err("json: error calling MarshalJSON")
    ELSE Ok("attjson", MarshalAttestationDoc(a))

\* a base64 string field: absent or not a string leaves the field empty
FieldDecodes(v) == v.t = "str" => DecodeValid(v.s)

FieldBytes(v) == IF v.t = "str" THEN DecodeBytes(v.s) ELSE <<>>

RECURSIVE ObjectEntries(_)
\* the loop over transparency_entries: every object element, in order
ObjectEntries(elems) ==
    IF Len(elems) = 0 THEN <<>>
    ELSE (IF elems[1].isObj THEN <<JSONToStruct(elems[1].st)>> ELSE <<>>)
         \o ObjectEntries(SubSeq(elems, 2, Len(elems)))

UnmarshalAttestation(data) ==
    LET isObj == data.form = "object"
        vm == data.verification_material
        env == data.envelope
        hasVM == isObj /\ vm.form = "object"
        hasEnv == isObj /\ env.form = "object"
    IN
    IF data.form \in {"malformed", "other"} THEN Err("failed to unmarshal JSON")
    ELSE IF hasVM /\ ~FieldDecodes(vm.certificate)
        THEN Err("failed to decode certificate")
    ELSE IF hasEnv /\ ~FieldDecodes(env.statement)
        THEN Err("failed to decode statement")
    ELSE IF hasEnv /\ ~FieldDecodes(env.signature)
        THEN Err("failed to decode signature")
    ELSE Ok("attestation",
            Attestation(
                IF isObj /\ data.version.t = "num" THEN Uint32(data.version.n) ELSE 0,
                Ref(AttVerificationMaterial(
                    IF hasVM THEN FieldBytes(vm.certificate) ELSE <<>>,
                    IF hasVM /\ vm.transparency_entries.form = "array"
                        THEN ObjectEntries(vm.transparency_entries.elems)
                        ELSE <<>>)),
                Ref(AttEnvelope(
                    IF hasEnv THEN FieldBytes(env.statement) ELSE <<>>,
                    IF hasEnv THEN FieldBytes(env.signature) ELSE <<>>))))

---------------------------------------------------------------------------
(* Bundle JSON codec *)

\* A bundle JSON text, as the protojson projection of a protobundle.Bundle:
\* byte fields are base64 strings, transparency entries JSON objects.
BundleDoc(form, mt, vm, content) ==
    [form |-> form, mediaType |-> mt, verificationMaterial |-> vm, content |-> content]

\* protojson.Marshal fails on a string that is not valid UTF-8
PbMarshals(pb) ==
    IsNil(pb.VerificationMaterial)
    \/ \A i \in 1..Len(Deref(pb.VerificationMaterial).TlogEntries) :
            EntryMarshals(Deref(pb.VerificationMaterial).TlogEntries[i])

\* the certificate content in JSON
VMContentToJSON(c) ==
    [kind |-> c.kind,
     rawBytes |-> IF c.kind = "certificate"
                    THEN EncodeToString(Deref(c.Certificate).RawBytes) ELSE <<>>,
     certificates |-> IF c.kind = "x509CertificateChain"
                    THEN [i \in 1..Len(Deref(c.X509CertificateChain).Certificates) |->
                            EncodeToString(
                                Deref(Deref(c.X509CertificateChain).Certificates[i]).RawBytes)]
                    ELSE <<>>]

\* the bundle content in JSON
ContentToJSON(c) ==
    [kind |-> c.kind,
     payload |-> IF c.kind = "dsseEnvelope"
                    THEN EncodeToString(Deref(c.DsseEnvelope).Payload) ELSE <<>>,
     payloadType |-> IF c.kind = "dsseEnvelope"
                    THEN Deref(c.DsseEnvelope).PayloadType ELSE "",
     signatures |-> IF c.kind = "dsseEnvelope"
                    THEN [i \in 1..Len(Deref(c.DsseEnvelope).Signatures) |->
                            EncodeToString(Deref(Deref(c.DsseEnvelope).Signatures[i]).Sig)]
                    ELSE <<>>]

\* protojson.Marshal(pb)
PbToJSON(pb) ==
    BundleDoc("object", pb.MediaType,
        IF IsNil(pb.VerificationMaterial) THEN NilPtr
        ELSE LET vm == Deref(pb.VerificationMaterial) IN
             Ref([content |-> VMContentToJSON(vm.Content),
                  tlogEntries |-> [i \in 1..Len(vm.TlogEntries) |->
                                      EntryToJSON(vm.TlogEntries[i])]]),
        ContentToJSON(pb.Content))

MarshalBundle(b) ==
    IF BundleIsNil(b) THEN Err("bundle cannot be nil")
    ELSE IF ~PbMarshals(Deref(Deref(b).Bundle)) THEN Err("proto: invalid UTF-8")
    ELSE Ok("bundlejson", PbToJSON(Deref(Deref(b).Bundle)))

\* protojson.Unmarshal accepts the document: valid base64, known entry fields
DocUnmarshals(d) ==
    /\ d.form = "object"
    /\ DecodeValid(d.content.payload)
    /\ \A i \in 1..Len(d.content.signatures) : DecodeValid(d.content.signatures[i])
    /\ \/ IsNil(d.verificationMaterial)
       \/ LET vm == Deref(d.verificationMaterial) IN
          /\ DecodeValid(vm.content.rawBytes)
          /\ \A i \in 1..Len(vm.content.certificates) :
                DecodeValid(vm.content.certificates[i])
          /\ \A i \in 1..Len(vm.tlogEntries) : EntryUnmarshals(vm.tlogEntries[i])

\* the message protojson.Unmarshal builds from an accepted document
JSONToPb(d) ==
    PbBundle(d.mediaType,
        IF IsNil(d.verificationMaterial) THEN NilPtr
        ELSE LET vm == Deref(d.verificationMaterial) IN
             Ref(BundleVerificationMaterial(
                VMContent(vm.content.kind,
                    IF vm.content.kind = "certificate"
                        THEN Ref(X509Certificate(DecodeBytes(vm.content.rawBytes)))
                        ELSE NilPtr,
                    IF vm.content.kind = "x509CertificateChain"
                        THEN Ref(X509CertificateChain(
                                [i \in 1..Len(vm.content.certificates) |->
                                    Ref(X509Certificate(
                                        DecodeBytes(vm.content.certificates[i])))]))
                        ELSE NilPtr),
                [i \in 1..Len(vm.tlogEntries) |-> JSONToEntry(vm.tlogEntries[i])])),
        BundleContent(d.content.kind,
            IF d.content.kind = "dsseEnvelope"
                THEN Ref(DsseEnvelope(DecodeBytes(d.content.payload),
                                      d.content.payloadType,
                                      [i \in 1..Len(d.content.signatures) |->
                                          Ref(DsseSignature(
                                              DecodeBytes(d.content.signatures[i])))]))
                ELSE NilPtr))

UnmarshalBundle(data) ==
    IF ~DocUnmarshals(data) THEN Err("failed to unmarshal bundle JSON")
    ELSE NewBundle(JSONToPb(data))

---------------------------------------------------------------------------
(* The inputs a caller may pass *)

\* all sequences over S of length at most n
RECURSIVE SeqsUpTo(_, _)
SeqsUpTo(S, n) ==
    IF n <= 0 THEN {<<>>}
    ELSE LET shorter == SeqsUpTo(S, n - 1) IN
         shorter \cup {Append(q, x) : q \in shorter, x \in S}

\* certificate bytes: none, two well-formed certificates, one with trailing data
CertInputs == {<<>>, <<48, 0>>, <<48, 1, 7>>, <<48, 0, 7>>}

StatementInputs == {<<>>, <<123>>}

SignatureInputs == {<<>>, <<9, 200>>}

VersionInputs == {0, 1, 999}

\* transparency entries for index 0: every combination of the forms a field
\* can take in a generic structured value
HeadStructs ==
    {[k \in EntryKeys |->
        CASE k = "logIndex" -> li
          [] k = "kindVersion" -> kv
          [] k = "inclusionProof" -> ip
          [] OTHER -> bg] :
        li \in {Absent, JNum(12), JStr(<<49, 50>>), JStr(<<120>>)},
        kv \in {Absent, JObj(<<100>>), JObj(<<255>>)},
        ip \in {Absent, JObj(<<>>)},
        bg \in {Absent, JNum(1)}}

\* transparency entries for the indexes after 0: a well-formed entry and one
\* holding a string that is not valid UTF-8
TailStructs ==
    {[EmptyStruct EXCEPT !["logIndex"] = JStr(<<55>>),
                         !["kindVersion"] = JObj(<<100>>),
                         !["inclusionProof"] = JObj(<<>>)],
     [EmptyStruct EXCEPT !["kindVersion"] = JObj(<<255>>)]}

EntryListInputs ==
    {<<>>} \cup {<<h>> \o tl : h \in HeadStructs,
                               tl \in SeqsUpTo(TailStructs, MaxEntries - 1)}

AttestationInputs ==
    {NilPtr} \cup
    {Ref(Attestation(v, vm, env)) :
        v \in VersionInputs,
        vm \in {NilPtr} \cup
               {Ref(AttVerificationMaterial(c, es)) :
                    c \in CertInputs, es \in EntryListInputs},
        env \in {NilPtr} \cup
                {Ref(AttEnvelope(st, sg)) :
                    st \in StatementInputs, sg \in SignatureInputs}}

\* typed transparency log entries: all defaults, well-formed, not UTF-8
TlogInputs ==
    {TLogEntry(0, NilPtr, NilPtr),
     TLogEntry(12, Ref(KindVersion(<<100>>)), Ref(InclusionProof)),
     TLogEntry(3, Ref(KindVersion(<<255>>)), Ref(InclusionProof))}

ChainCertInputs == {NilPtr, Ref(X509Certificate(<<48, 0>>)), Ref(X509Certificate(<<48, 1, 7>>))}

VMContentInputs ==
    {VMContent("unset", NilPtr, NilPtr), VMContent("publicKey", NilPtr, NilPtr),
     VMContent("certificate", NilPtr, NilPtr),
     VMContent("certificate", Ref(X509Certificate(<<48, 1, 7>>)), NilPtr),
     VMContent("x509CertificateChain", NilPtr, NilPtr)}
    \cup {VMContent("x509CertificateChain", NilPtr, Ref(X509CertificateChain(cs))) :
            cs \in SeqsUpTo(ChainCertInputs, MaxChain)}

DsseSignatureInputs == {NilPtr, Ref(DsseSignature(<<9, 200>>))}

BundleContentInputs ==
    {BundleContent("unset", NilPtr), BundleContent("messageSignature", NilPtr),
     BundleContent("dsseEnvelope", NilPtr)}
    \cup {BundleContent("dsseEnvelope", Ref(DsseEnvelope(<<123>>, InTotoPayloadType, sigs))) :
            sigs \in SeqsUpTo(DsseSignatureInputs, MaxSigs)}

PbBundleInputs ==
    {PbBundle(mt, vm, ct) :
        mt \in {BundleMediaType, LegacyMediaType02},
        vm \in {NilPtr} \cup
               {Ref(BundleVerificationMaterial(c, tl)) :
                    c \in VMContentInputs, tl \in SeqsUpTo(TlogInputs, MaxTlog)},
        ct \in BundleContentInputs}

BundleInputs ==
    {NilPtr, Ref(WrapBundle(NilPtr))} \cup {Ref(WrapBundle(Ref(pb))) : pb \in PbBundleInputs}

\* whether no message below the bundle is a nil pointer
PbComplete(pb) ==
    /\ ~IsNil(pb.VerificationMaterial)
    /\ LET c == Deref(pb.VerificationMaterial).Content IN
       /\ c.kind = "certificate" => ~IsNil(c.Certificate)
       /\ c.kind = "x509CertificateChain" =>
            /\ ~IsNil(c.X509CertificateChain)
            /\ \A i \in 1..Len(Deref(c.X509CertificateChain).Certificates) :
                    ~IsNil(Deref(c.X509CertificateChain).Certificates[i])
    /\ pb.Content.kind = "dsseEnvelope" =>
            /\ ~IsNil(pb.Content.DsseEnvelope)
            /\ \A i \in 1..Len(Deref(pb.Content.DsseEnvelope).Signatures) :
                    ~IsNil(Deref(pb.Content.DsseEnvelope).Signatures[i])

\* MarshalBundle is called on nil bundles and on fully populated ones
MarshalBundleInputs ==
    {b \in BundleInputs : BundleIsNil(b) \/ PbComplete(Deref(Deref(b).Bundle))}

\* base64 text: of a certificate, of a statement, with a character outside
\* the alphabet, and of a length that is no multiple of four
Base64Inputs == {EncodeToString(<<48, 0>>), EncodeToString(<<123>>), <<12, 65, 0, 0>>, <<12, 0>>}

DocElemInputs ==
    {DocElem(FALSE, EmptyStruct),
     DocElem(TRUE, [EmptyStruct EXCEPT !["logIndex"] = JStr(<<49, 50>>)]),
     DocElem(TRUE, [EmptyStruct EXCEPT !["kindVersion"] = JObj(<<100>>)])}

DocFieldInputs == {Absent, JNum(5)} \cup {JStr(s) : s \in Base64Inputs}

AttDocInputs ==
    {AttDoc(f, Absent, NoVM, NoEnv) : f \in {"malformed", "other", "null"}} \cup
    {AttDoc("object", v, vm, env) :
        v \in {Absent, JNum(1), JNum(999), JStr(<<49>>)},
        vm \in {NoVM, DocVM("other", Absent, DocEntries("absent", <<>>))} \cup
               {DocVM("object", c, es) :
                    c \in DocFieldInputs,
                    es \in {DocEntries("absent", <<>>), DocEntries("other", <<>>)} \cup
                           {DocEntries("array", el) :
                                el \in SeqsUpTo(DocElemInputs, MaxJsonEntries)}},
        env \in {NoEnv, DocEnv("other", Absent, Absent)} \cup
                {DocEnv("object", st, sg) :
                    st \in {Absent, JStr(EncodeToString(<<123>>)), JStr(<<12, 0>>)},
                    sg \in {Absent, JStr(EncodeToString(<<9, 200>>)), JNum(5)}}}

\* bundle JSON texts: not JSON, and the projection of a bundle with its
\* certificate's base64 text varied
BundleDocInputs ==
    {BundleDoc("malformed", "", NilPtr, ContentToJSON(BundleContent("unset", NilPtr)))} \cup
    {BundleDoc("object", mt,
        Ref([content |-> [kind |-> "certificate", rawBytes |-> raw, certificates |-> <<>>],
             tlogEntries |-> <<EntryToJSON(e)>>]),
        ContentToJSON(BundleContent("dsseEnvelope",
            Ref(DsseEnvelope(<<123>>, InTotoPayloadType, <<Ref(DsseSignature(<<9, 200>>))>>))))) :
        mt \in {BundleMediaType, ""},
        raw \in Base64Inputs,
        e \in TlogInputs \ {TLogEntry(3, Ref(KindVersion(<<255>>)), Ref(InclusionProof))}}

---------------------------------------------------------------------------
(* The caller *)

Last == hist[Len(hist)]

Call(op, arg, res) == [op |-> op, arg |-> arg, res |-> res]

\* what a call may be given: any input when nothing was called yet, else the
\* value the previous call returned, if it returned one of this kind
PointerArgs(kind, fresh) ==
    IF Len(hist) = 0 THEN fresh
    ELSE IF Last.res.status = "ok" /\ Last.res.kind = kind THEN {Last.res.val}
    ELSE {}

BytesArgs(kind, fresh) ==
    IF Len(hist) = 0 THEN fresh
    ELSE IF Last.res.status = "ok" /\ Last.res.kind = kind THEN {Deref(Last.res.val)}
    ELSE {}

Init == hist = <<>>

CallToBundle ==
    /\ Len(hist) < MaxCalls
    /\ \E a \in PointerArgs("attestation", AttestationInputs) :
        hist' = Append(hist, Call("ToBundle", a, ToBundle(a)))

CallFromBundle ==
    /\ Len(hist) < MaxCalls
    /\ \E b \in PointerArgs("bundle", BundleInputs) :
        hist' = Append(hist, Call("FromBundle", b, FromBundle(b)))

CallMarshalBundle ==
    /\ Len(hist) < MaxCalls
    /\ \E b \in PointerArgs("bundle", MarshalBundleInputs) :
        hist' = Append(hist, Call("MarshalBundle", b, MarshalBundle(b)))

CallUnmarshalBundle ==
    /\ Len(hist) < MaxCalls
    /\ \E d \in BytesArgs("bundlejson", BundleDocInputs) :
        hist' = Append(hist, Call("UnmarshalBundle", d, UnmarshalBundle(d)))

CallMarshalAttestation ==
    /\ Len(hist) < MaxCalls
    /\ \E a \in PointerArgs("attestation", AttestationInputs) :
        hist' = Append(hist, Call("MarshalAttestation", a, MarshalAttestation(a)))

CallUnmarshalAttestation ==
    /\ Len(hist) < MaxCalls
    /\ \E d \in BytesArgs("attjson", AttDocInputs) :
        hist' = Append(hist, Call("UnmarshalAttestation", d, UnmarshalAttestation(d)))

Next ==
    \/ CallToBundle
    \/ CallFromBundle
    \/ CallMarshalBundle
    \/ CallUnmarshalBundle
    \/ CallMarshalAttestation
    \/ CallUnmarshalAttestation

Spec == Init /\ [][Next]_vars

---------------------------------------------------------------------------
(* Properties *)

Calls == 1..Len(hist)

\* call i + 1 was given what call i returned
Follows(i, first, second) ==
    /\ i + 1 <= Len(hist)
    /\ hist[i].op = first
    /\ hist[i].res.status = "ok"
    /\ hist[i + 1].op = second

AttCert(a) == Deref(a.VerificationMaterial).Certificate

AttEntries(a) == Deref(a.VerificationMaterial).TransparencyEntries

AttStatement(a) == Deref(a.Envelope).Statement

AttSignature(a) == Deref(a.Envelope).Signature

\* the comparison of TestRoundTrip: both entries marshalled to JSON, read
\* back as maps and marshalled again (key order plays no role)
JsonNormalizedEqual(s1, s2) == StructToJSON(s1) = StructToJSON(s2)

\* an entry in the form protojson writes a TransparencyLogEntry in: known
\* keys only, logIndex a decimal string other than "0", messages as objects
CanonicalEntry(s) ==
    /\ s["bogus"].t = "absent"
    /\ \/ s["logIndex"].t = "absent"
       \/ /\ s["logIndex"].t = "str"
          /\ Len(s["logIndex"].s) >= 1
          /\ \A i \in 1..Len(s["logIndex"].s) : IsDigit(s["logIndex"].s[i])
          /\ s["logIndex"].s[1] # 48
    /\ s["kindVersion"].t \in {"absent", "obj"}
    /\ s["inclusionProof"].t \in {"absent", "obj"}

\* the fields a round trip through a bundle leaves as they were
SameSignedContent(a, r) ==
    /\ r.Version = a.Version
    /\ AttCert(r) = AttCert(a)
    /\ AttStatement(r) = AttStatement(a)
    /\ AttSignature(r) = AttSignature(a)

\* C1 as stated: whenever ToBundle succeeded on a, FromBundle of its result
\* succeeds and returns a's version, certificate, statement and signature,
\* as many transparency entries as a has, each equal to a's entry at the same
\* index under JSON-normalized comparison.
C1_RoundTripAsStated ==
    \A i \in Calls : Follows(i, "ToBundle", "FromBundle") =>
        LET a == Deref(hist[i].arg)
            res == hist[i + 1].res
        IN /\ res.status = "ok"
           /\ SameSignedContent(a, Deref(res.val))
           /\ Len(AttEntries(Deref(res.val))) = Len(AttEntries(a))
           /\ \A j \in 1..Len(AttEntries(a)) :
                JsonNormalizedEqual(AttEntries(Deref(res.val))[j], AttEntries(a)[j])

\* C1 amended: whenever ToBundle succeeded on a, FromBundle of its result
\* succeeds and returns a's version, certificate, statement and signature,
\* and exactly one transparency entry however many a has; that entry equals
\* a's entry 0 under JSON-normalized comparison when a's entry 0 is in the
\* canonical form of the typed codec.
C1_RoundTrip ==
    \A i \in Calls : Follows(i, "ToBundle", "FromBundle") =>
        LET a == Deref(hist[i].arg)
            res == hist[i + 1].res
        IN /\ res.status = "ok"
           /\ SameSignedContent(a, Deref(res.val))
           /\ Len(AttEntries(Deref(res.val))) = 1
           /\ CanonicalEntry(AttEntries(a)[1]) =>
                JsonNormalizedEqual(AttEntries(Deref(res.val))[1], AttEntries(a)[1])

\* a round trip of an attestation with two entries, the first canonical
C1_Witness ==
    \E i \in Calls :
        /\ Follows(i, "ToBundle", "FromBundle")
        /\ hist[i + 1].res.status = "ok"
        /\ Len(AttEntries(Deref(hist[i].arg))) = 2
        /\ CanonicalEntry(AttEntries(Deref(hist[i].arg))[1])
        /\ Len(AttCert(Deref(hist[i].arg))) = 3

\* the inputs C2 is about
C2_MissingBlock(a) == IsNil(a.VerificationMaterial) \/ IsNil(a.Envelope)

C2_IncompleteBundle(pb) ==
    \/ IsNil(pb.VerificationMaterial)
    \/ /\ Deref(pb.VerificationMaterial).Content.kind = "certificate"
       /\ IsNil(Deref(pb.VerificationMaterial).Content.Certificate)
    \/ /\ pb.Content.kind = "dsseEnvelope"
       /\ IsNil(pb.Content.DsseEnvelope)

\* C2: ToBundle on a version 1 attestation with a missing block, FromBundle
\* on a bundle whose verification material, certificate or DSSE envelope is
\* missing, and MarshalAttestation on nil or on an attestation with a
\* missing block each return an error: none of them panics.
C2_NoPanicOnIncompleteInput ==
    \A i \in Calls :
        LET c == hist[i] IN
        /\ (/\ c.op = "ToBundle"
            /\ ~IsNil(c.arg)
            /\ Deref(c.arg).Version = 1
            /\ C2_MissingBlock(Deref(c.arg)))
                => c.res.status = "err"
        /\ (/\ c.op = "FromBundle"
            /\ ~IsNil(c.arg)
            /\ ~IsNil(Deref(c.arg).Bundle)
            /\ C2_IncompleteBundle(Deref(Deref(c.arg).Bundle)))
                => c.res.status = "err"
        /\ (/\ c.op = "MarshalAttestation"
            /\ (IsNil(c.arg) \/ C2_MissingBlock(Deref(c.arg))))
                => c.res.status = "err"

\* C3: ToBundle(nil) returns the nil-attestation error and no bundle;
\* FromBundle of a nil bundle, or of a bundle whose inner message is nil,
\* returns the nil-bundle error and no attestation; neither panics.
C3_NilInputs ==
    \A i \in Calls :
        LET c == hist[i] IN
        /\ (c.op = "ToBundle" /\ IsNil(c.arg))
                => c.res = Err("attestation cannot be nil")
        /\ (c.op = "FromBundle" /\ (IsNil(c.arg) \/ IsNil(Deref(c.arg).Bundle)))
                => c.res = Err("bundle cannot be nil")

\* FromBundle was called on a bundle whose inner message is nil
C3_Witness ==
    \E i \in Calls :
        /\ hist[i].op = "FromBundle"
        /\ ~IsNil(hist[i].arg)
        /\ IsNil(Deref(hist[i].arg).Bundle)
        /\ hist[i].res.status = "err"

\* C4: ToBundle on a non-nil attestation whose version is not 1 returns the
\* unsupported-version error and no bundle, whatever its blocks hold or
\* lack; UnmarshalAttestation takes over any version number without error.
C4_VersionGate ==
    \A i \in Calls :
        LET c == hist[i] IN
        /\ (c.op = "ToBundle" /\ ~IsNil(c.arg) /\ Deref(c.arg).Version # 1)
                => c.res = Err("unsupported attestation version")
        /\ (/\ c.op = "UnmarshalAttestation"
            /\ c.arg.form = "object"
            /\ c.arg.version.t = "num"
            /\ c.res.msg \notin {"failed to decode certificate",
                                 "failed to decode statement",
                                 "failed to decode signature"})
                => /\ c.res.status = "ok"
                   /\ Deref(c.res.val).Version = c.arg.version.n

\* an attestation decoded with version 999 was refused by ToBundle
C4_Witness ==
    \E i \in Calls :
        /\ Follows(i, "UnmarshalAttestation", "ToBundle")
        /\ hist[i].arg.version = JNum(999)
        /\ Deref(hist[i].res.val).Version = 999
        /\ hist[i + 1].res.status = "err"

\* C5: a bundle ToBundle returns has the media type
\* application/vnd.dev.sigstore.bundle.v0.3+json; MarshalBundle of it
\* succeeds, and UnmarshalBundle of that text succeeds with the same media
\* type.
C5_MediaType ==
    \A i \in Calls :
        /\ (hist[i].op = "ToBundle" /\ hist[i].res.status = "ok")
                => Deref(Deref(hist[i].res.val).Bundle).MediaType
                        = "application/vnd.dev.sigstore.bundle.v0.3+json"
        /\ Follows(i, "ToBundle", "MarshalBundle")
                => hist[i + 1].res.status = "ok"
        /\ (Follows(i, "ToBundle", "MarshalBundle")
            /\ Follows(i + 1, "MarshalBundle", "UnmarshalBundle"))
                => /\ hist[i + 2].res.status = "ok"
                   /\ Deref(Deref(hist[i + 2].res.val).Bundle).MediaType
                        = "application/vnd.dev.sigstore.bundle.v0.3+json"

\* a bundle from ToBundle was marshalled and unmarshalled
C5_Witness ==
    \E i \in Calls :
        /\ Follows(i, "ToBundle", "MarshalBundle")
        /\ Follows(i + 1, "MarshalBundle", "UnmarshalBundle")
        /\ hist[i + 2].res.status = "ok"

\* whether every string of every transparency entry can be written as JSON
C6_EntriesEncodable(a) ==
    \A j \in 1..Len(AttEntries(a)) :
        \A k \in EntryKeys : \A n \in 1..Len(AttEntries(a)[j][k].s) :
            AttEntries(a)[j][k].s[n] # 255

\* C6 as stated: for every attestation with both blocks present,
\* MarshalAttestation succeeds, and UnmarshalAttestation of its text
\* succeeds and returns the same certificate, statement and signature bytes.
C6_JsonRoundTripAsStated ==
    \A i \in Calls :
        (/\ hist[i].op = "MarshalAttestation"
         /\ ~IsNil(hist[i].arg)
         /\ ~C2_MissingBlock(Deref(hist[i].arg)))
            => /\ hist[i].res.status = "ok"
               /\ (i + 1 <= Len(hist) /\ hist[i + 1].op = "UnmarshalAttestation")
                    => /\ hist[i + 1].res.status = "ok"
                       /\ AttCert(Deref(hist[i + 1].res.val)) = AttCert(Deref(hist[i].arg))
                       /\ AttStatement(Deref(hist[i + 1].res.val))
                            = AttStatement(Deref(hist[i].arg))
                       /\ AttSignature(Deref(hist[i + 1].res.val))
                            = AttSignature(Deref(hist[i].arg))

\* C6 amended: for every attestation with both blocks present whose
\* transparency entries can be written as JSON, MarshalAttestation
\* succeeds; and whenever it succeeds, UnmarshalAttestation of its text
\* succeeds and returns the same certificate, statement and signature bytes.
C6_JsonRoundTrip ==
    \A i \in Calls :
        /\ (/\ hist[i].op = "MarshalAttestation"
            /\ ~IsNil(hist[i].arg)
            /\ ~C2_MissingBlock(Deref(hist[i].arg))
            /\ C6_EntriesEncodable(Deref(hist[i].arg)))
                => hist[i].res.status = "ok"
        /\ Follows(i, "MarshalAttestation", "UnmarshalAttestation")
                => /\ hist[i + 1].res.status = "ok"
                   /\ AttCert(Deref(hist[i + 1].res.val)) = AttCert(Deref(hist[i].arg))
                   /\ AttStatement(Deref(hist[i + 1].res.val))
                        = AttStatement(Deref(hist[i].arg))
                   /\ AttSignature(Deref(hist[i + 1].res.val))
                        = AttSignature(Deref(hist[i].arg))

\* an attestation with a three byte certificate, a one byte statement and a
\* two byte signature went through the JSON codec
C6_Witness ==
    \E i \in Calls :
        /\ Follows(i, "MarshalAttestation", "UnmarshalAttestation")
        /\ hist[i + 1].res.status = "ok"
        /\ Len(AttCert(Deref(hist[i].arg))) = 3
        /\ Len(AttStatement(Deref(hist[i].arg))) = 1
        /\ Len(AttSignature(Deref(hist[i].arg))) = 2

\* C7: a bundle ToBundle returns holds the single-certificate variant with
\* the input's certificate bytes, a DSSE envelope with the input's statement
\* as payload, the in-toto payload type and the input's signature as its
\* one signature, and exactly one tlog entry: the conversion of entry 0.
C7_BundleShape ==
    \A i \in Calls : (hist[i].op = "ToBundle" /\ hist[i].res.status = "ok") =>
        LET a == Deref(hist[i].arg)
            pb == Deref(Deref(hist[i].res.val).Bundle)
            vm == Deref(pb.VerificationMaterial)
        IN /\ Len(AttEntries(a)) >= 1
           /\ vm.Content.kind = "certificate"
           /\ Deref(vm.Content.Certificate).RawBytes = AttCert(a)
           /\ IsNil(vm.Content.X509CertificateChain)
           /\ pb.Content.kind = "dsseEnvelope"
           /\ Deref(pb.Content.DsseEnvelope).Payload = AttStatement(a)
           /\ Deref(pb.Content.DsseEnvelope).PayloadType = "application/vnd.in-toto+json"
           /\ Len(Deref(pb.Content.DsseEnvelope).Signatures) = 1
           /\ Deref(Deref(pb.Content.DsseEnvelope).Signatures[1]).Sig = AttSignature(a)
           /\ Len(vm.TlogEntries) = 1
           /\ vm.TlogEntries[1]
                = Deref(transparencyEntryFromStruct(AttEntries(a)[1]).val)

\* ToBundle succeeded on an attestation with two different entries
C7_Witness ==
    \E i \in Calls :
        /\ hist[i].op = "ToBundle"
        /\ hist[i].res.status = "ok"
        /\ Len(AttEntries(Deref(hist[i].arg))) = 2
        /\ AttEntries(Deref(hist[i].arg))[1] # AttEntries(Deref(hist[i].arg))[2]

\* the calls of FromBundle that reach the certificate switch
C8_ReachesSwitch(c) ==
    /\ c.op = "FromBundle"
    /\ ~IsNil(c.arg)
    /\ ~IsNil(Deref(c.arg).Bundle)
    /\ ~IsNil(Deref(Deref(c.arg).Bundle).VerificationMaterial)

C8_Content(c) == Deref(Deref(Deref(c.arg).Bundle).VerificationMaterial).Content

\* C8: FromBundle returns the bytes of the single certificate, or of element
\* 0 of a certificate chain; it fails on an empty chain, and with the
\* unsupported-certificate-type error on any other or no variant, whatever
\* the bundle content and the signatures are.
C8_CertificateExtraction ==
    \A i \in Calls : C8_ReachesSwitch(hist[i]) =>
        LET c == hist[i]
            content == C8_Content(c)
        IN /\ (content.kind = "certificate" /\ c.res.status = "ok")
                => AttCert(Deref(c.res.val)) = Deref(content.Certificate).RawBytes
           /\ (content.kind = "x509CertificateChain" /\ c.res.status = "ok")
                => /\ Len(Deref(content.X509CertificateChain).Certificates) >= 1
                   /\ ~IsNil(Deref(content.X509CertificateChain).Certificates[1])
                   /\ AttCert(Deref(c.res.val))
                        = Deref(Deref(content.X509CertificateChain).Certificates[1]).RawBytes
           /\ (/\ content.kind = "x509CertificateChain"
               /\ ~IsNil(content.X509CertificateChain)
               /\ Len(Deref(content.X509CertificateChain).Certificates) = 0)
                => c.res = Err("no certificates in chain")
           /\ content.kind \notin {"certificate", "x509CertificateChain"}
                => c.res = Err("unsupported certificate type")

\* FromBundle took the first of two different certificates of a chain
C8_Witness ==
    \E i \in Calls :
        /\ C8_ReachesSwitch(hist[i])
        /\ hist[i].res.status = "ok"
        /\ C8_Content(hist[i]).kind = "x509CertificateChain"
        /\ Len(Deref(C8_Content(hist[i]).X509CertificateChain).Certificates) = 2
        /\ Deref(C8_Content(hist[i]).X509CertificateChain).Certificates[1]
            # Deref(C8_Content(hist[i]).X509CertificateChain).Certificates[2]

\* whether the certificate switch yields bytes
C9_CertificateAcceptable(content) ==
    \/ content.kind = "certificate" /\ ~IsNil(content.Certificate)
    \/ /\ content.kind = "x509CertificateChain"
       /\ ~IsNil(content.X509CertificateChain)
       /\ Len(Deref(content.X509CertificateChain).Certificates) >= 1
       /\ ~IsNil(Deref(content.X509CertificateChain).Certificates[1])

\* C9: with an acceptable certificate, FromBundle fails when the content is
\* not a DSSE envelope and when the envelope carries no or several
\* signatures; when it succeeds there is exactly one signature, the
\* statement is the payload and the signature that signature's bytes.
C9_EnvelopeGate ==
    \A i \in Calls :
        (C8_ReachesSwitch(hist[i]) /\ C9_CertificateAcceptable(C8_Content(hist[i]))) =>
        LET c == hist[i]
            content == Deref(Deref(c.arg).Bundle).Content
        IN /\ content.kind # "dsseEnvelope"
                => c.res = Err("bundle does not contain a DSSE envelope")
           /\ (/\ content.kind = "dsseEnvelope"
               /\ ~IsNil(content.DsseEnvelope)
               /\ Len(Deref(content.DsseEnvelope).Signatures) # 1)
                => c.res = Err("expected exactly one signature")
           /\ c.res.status = "ok"
                => /\ content.kind = "dsseEnvelope"
                   /\ Len(Deref(content.DsseEnvelope).Signatures) = 1
                   /\ AttStatement(Deref(c.res.val)) = Deref(content.DsseEnvelope).Payload
                   /\ AttSignature(Deref(c.res.val))
                        = Deref(Deref(content.DsseEnvelope).Signatures[1]).Sig

\* FromBundle refused an envelope with two signatures
C9_Witness ==
    \E i \in Calls :
        /\ C8_ReachesSwitch(hist[i])
        /\ C9_CertificateAcceptable(C8_Content(hist[i]))
        /\ Deref(hist[i].arg).Bundle[1].Content.kind = "dsseEnvelope"
        /\ ~IsNil(Deref(hist[i].arg).Bundle[1].Content.DsseEnvelope)
        /\ Len(Deref(Deref(hist[i].arg).Bundle[1].Content.DsseEnvelope).Signatures) = 2
        /\ hist[i].res.status = "err"

\* the indexes (0-based) of the tlog entries whose conversion fails
C10_Failing(tlog) ==
    {j \in 0..(Len(tlog) - 1) : transparencyEntryToStruct(tlog[j + 1]).status # "ok"}

\* the calls of FromBundle that reach the loop over the tlog entries
C10_ReachesLoop(c) ==
    /\ C8_ReachesSwitch(c)
    /\ C9_CertificateAcceptable(C8_Content(c))
    /\ Deref(Deref(c.arg).Bundle).Content.kind = "dsseEnvelope"
    /\ ~IsNil(Deref(Deref(c.arg).Bundle).Content.DsseEnvelope)
    /\ Len(Deref(Deref(Deref(c.arg).Bundle).Content.DsseEnvelope).Signatures) = 1

\* C10: on success FromBundle returns version 1 and as many transparency
\* entries as the bundle has tlog entries, entry i the conversion of tlog
\* entry i; when the conversion of an entry fails it returns an error naming
\* the index of the first such entry, and no attestation.
C10_TransparencyEntries ==
    \A i \in Calls : hist[i].op = "FromBundle" =>
        LET c == hist[i] IN
        /\ c.res.status = "ok" =>
            LET tlog == Deref(Deref(Deref(c.arg).Bundle).VerificationMaterial).TlogEntries
                r == Deref(c.res.val)
            IN /\ r.Version = 1
               /\ Len(AttEntries(r)) = Len(tlog)
               /\ \A j \in 1..Len(tlog) :
                    AttEntries(r)[j] = Deref(transparencyEntryToStruct(tlog[j]).val)
        /\ C10_ReachesLoop(c) =>
            LET tlog == Deref(Deref(Deref(c.arg).Bundle).VerificationMaterial).TlogEntries
            IN C10_Failing(tlog) # {} =>
                \E j \in C10_Failing(tlog) :
                    /\ \A k \in C10_Failing(tlog) : j <= k
                    /\ c.res = ErrAt("failed to convert transparency entry", j)

\* FromBundle failed on the second of two tlog entries
C10_Witness ==
    \E i \in Calls :
        /\ C10_ReachesLoop(hist[i])
        /\ C10_Failing(Deref(Deref(Deref(hist[i].arg).Bundle).VerificationMaterial).TlogEntries)
            = {1}
        /\ hist[i].res.idx = 1

\* whether a known field of the JSON text carries a value of the wrong type:
\* version not a number, a block not an object, a byte field not a string
C11_WrongTyped(data) ==
    /\ data.form = "object"
    /\ \/ data.version.t \notin {"absent", "num"}
       \/ data.verification_material.form = "other"
       \/ data.envelope.form = "other"
       \/ /\ data.verification_material.form = "object"
          /\ data.verification_material.certificate.t \notin {"absent", "str"}
       \/ /\ data.envelope.form = "object"
          /\ \/ data.envelope.statement.t \notin {"absent", "str"}
             \/ data.envelope.signature.t \notin {"absent", "str"}

\* whether a certificate, statement or signature string is not valid base64
C11_InvalidBase64(data) ==
    /\ data.form = "object"
    /\ \/ /\ data.verification_material.form = "object"
          /\ data.verification_material.certificate.t = "str"
          /\ ~DecodeValid(data.verification_material.certificate.s)
       \/ /\ data.envelope.form = "object"
          /\ \/ /\ data.envelope.statement.t = "str"
                /\ ~DecodeValid(data.envelope.statement.s)
             \/ /\ data.envelope.signature.t = "str"
                /\ ~DecodeValid(data.envelope.signature.s)

\* the object elements of a transparency_entries array, in their order
C11_ObjectElements(elems) ==
    LET objs == SelectSeq(elems, LAMBDA e : e.isObj)
    IN [j \in 1..Len(objs) |-> objs[j].st]

\* an encoding error: an error value and no Attestation
C11_IsEncodingError(res) ==
    /\ res.status = "err"
    /\ IsNil(res.val)

\* the part of C11 the code keeps: malformed text and invalid base64 are
\* reported as errors with no Attestation, and on success the transparency
\* entries are the object elements of the array in their order.
C11_ReportedErrors ==
    \A i \in Calls : hist[i].op = "UnmarshalAttestation" =>
        LET data == hist[i].arg
            res == hist[i].res
        IN /\ data.form = "malformed" => C11_IsEncodingError(res)
           /\ C11_InvalidBase64(data) => C11_IsEncodingError(res)
           /\ (/\ res.status = "ok"
               /\ data.form = "object"
               /\ data.verification_material.form = "object"
               /\ data.verification_material.transparency_entries.form = "array")
                => AttEntries(Deref(res.val))
                    = C11_ObjectElements(
                        data.verification_material.transparency_entries.elems)

\* C11: UnmarshalAttestation returns an error and no Attestation for text
\* that is not valid JSON, for a certificate, statement or signature string
\* that is not valid base64, and for a known field (version,
\* verification_material, certificate, envelope, statement, signature) whose
\* JSON value has the wrong type; non-object elements of
\* transparency_entries are skipped and the remaining entries keep their
\* order.
C11_EncodingErrors ==
    /\ C11_ReportedErrors
    /\ \A i \in Calls :
        (hist[i].op = "UnmarshalAttestation" /\ C11_WrongTyped(hist[i].arg))
            => C11_IsEncodingError(hist[i].res)

\* UnmarshalAttestation was given a text whose only defect is a number where
\* the base64 string of the signature is expected, and returned an
\* Attestation with an empty signature
C11_WrongTypeAccepted ==
    \E i \in Calls :
        /\ hist[i].op = "UnmarshalAttestation"
        /\ C11_WrongTyped(hist[i].arg)
        /\ hist[i].arg.envelope.form = "object"
        /\ hist[i].arg.envelope.signature = JNum(5)
        /\ hist[i].res.status = "ok"
        /\ AttSignature(Deref(hist[i].res.val)) = <<>>

\* UnmarshalAttestation skipped a non-object element that stood between two
\* objects of a transparency_entries array
C11_SkippedElement ==
    \E i \in Calls :
        /\ hist[i].op = "UnmarshalAttestation"
        /\ hist[i].res.status = "ok"
        /\ hist[i].arg.form = "object"
        /\ hist[i].arg.verification_material.form = "object"
        /\ hist[i].arg.verification_material.transparency_entries.form = "array"
        /\ LET elems == hist[i].arg.verification_material.transparency_entries.elems
           IN /\ Len(elems) = 2
              /\ ~elems[1].isObj
              /\ elems[2].isObj
              /\ AttEntries(Deref(hist[i].res.val)) = <<elems[2].st>>

===========================================================================
